---- MODULE Spec2Model ----
(***************************************************************************)
(* A model of the recoil crate's foundation layer: the Cursor over a byte  *)
(* slice (src/cursor.rs), the View and Span sub-range operations on byte   *)
(* and text slices (src/view.rs, src/slice.rs, src/span.rs).               *)
(*                                                                         *)
(* A Rust slice `&[u8]` / `&str` is a fat pointer: it is modelled as a     *)
(* handle [off, len] into the backing buffer `buf`, whose allocation       *)
(* starts at address `base`.  A panic ends the run of the value it hit:    *)
(* `status` becomes "panicked" and no further call is made.                *)
(*                                                                         *)
(* Each run exercises one value, named by `subject`:                       *)
(*   "cursor"     a Cursor, from Cursor::new(buf), and the calls on it     *)
(*   "bytes"      a `&[u8]` and its range operations (View, Span); each    *)
(*                successful call rebinds the slice to the narrower view   *)
(*   "remaining"  a `&[u8]` and View's remaining() / has_remaining()       *)
(*   "str"        a `&str` and Span's over() / to() / split_when(), and    *)
(*                Collection's as_enum()                                   *)
(*   "error"      an ErrorWithContext or ErrorMessage (src/error.rs)       *)
(*   "tokens"     a Bytes (src/collection.rs)                              *)
(*   "libspan"    a `&[u8]` and the crate root's Span (src/lib.rs)         *)
(*   "span"       a ByteSpan or StrSpan iterator (src/span.rs)             *)
(*   "libcursor"  the crate root's Cursor (src/lib.rs)                     *)
(***************************************************************************)
EXTENDS Integers, Sequences, FiniteSets, TLC

\* Longest backing buffer, in bytes.
MaxLen == 3
\* Byte values are 0..MaxByte.
MaxByte == 1
\* Calls to next_item counted on a fresh cursor beyond the buffer's length.
ExtraCalls == 2
\* Longest buffer the slice operations are exercised on, in bytes.
MaxViewLen == 3
\* Longest text buffer, in characters.
MaxChars == 2
\* Allocations start at an address in 1..MaxAddr (never null).
MaxAddr == 3
\* Width of usize in bits, scaled down: addresses and lengths stay below 2^UsizeBits.
UsizeBits == 6
MaxCode == 6
ErrSteps == 4

Bytes == 0..MaxByte
\* The usize arguments the calls are made with: every count up to one past
\* the longest buffer.
Counts == 0..(MaxLen + 1)

RECURSIVE SeqsUpTo(_, _)
SeqsUpTo(S, n) ==
  IF n = 0 THEN {<<>>}
  ELSE LET shorter == SeqsUpTo(S, n - 1)
       IN shorter \cup {Append(s, x) : s \in {t \in shorter : Len(t) = n - 1}, x \in S}

Buffers == SeqsUpTo(Bytes, MaxLen)

VARIABLES
  subject,   \* which value the calls are made on
  buf,       \* the caller-owned backing buffer (never mutated)
  base,      \* the address buf is allocated at (0 where no call reads it)
  build,     \* "debug" or "release": whether debug assertions and overflow
             \* checks are compiled in ("any" where no call depends on it)
  slice,     \* the `&[u8]` / `&str` the calls are made on
  inner,     \* Cursor.inner: the slice handle the cursor holds
  position,  \* Cursor.position
  status,    \* "ok", or "panicked" once a call has panicked
  call,      \* the last call: its name, arguments and the state it was made in
  ret,       \* what the last call returned
  trail,     \* what the calls since construction have been (see Trail)
  self       \* the struct the calls are made on, for the subjects that are
             \* neither the cursor of src/cursor.rs nor a bare slice

vars == <<subject, buf, base, build, slice, inner, position, status, call, ret, trail, self>>

-----------------------------------------------------------------------------
\* Values returned by the calls.

Unit == [tag |-> "Unit"]
None == [tag |-> "None"]
Panic == [tag |-> "Panic"]
Usize(n) == [tag |-> "Usize", val |-> n]
SliceVal(off, n) == [tag |-> "Slice", off |-> off, len |-> n]
SomeSlice(s) == [tag |-> "SomeSlice", off |-> s.off, len |-> s.len]
SomeItem(pos, item) == [tag |-> "SomeItem", pos |-> pos, item |-> item]
Pair(a, b) == [tag |-> "Pair", fst |-> a, snd |-> b]
Bool(b) == [tag |-> "Bool", val |-> b]
SomePair(a, b) == [tag |-> "SomePair", fst |-> a, snd |-> b]
Enum(items) == [tag |-> "Enum", items |-> items]
SomeRef(off) == [tag |-> "SomeRef", off |-> off]
SomeChar(c) == [tag |-> "SomeChar", item |-> c]

NoRead == [idx |-> -1, len |-> 0]
NoSelf == [tag |-> "none"]
NoCall == [op |-> "new", args |-> <<>>, inner |-> SliceVal(0, 0), position |-> 0,
           read |-> NoRead]

\* The items a slice handle covers.
Content(s) == SubSeq(buf, s.off + 1, s.off + s.len)

\* `&s[from..to]`: the checked range index of a slice.
IndexRange(s, from, to) ==
  IF from <= to /\ to <= s.len
  THEN SliceVal(s.off + from, to - from)
  ELSE Panic

-----------------------------------------------------------------------------
\* Cursor (src/cursor.rs).  A cursor value is [inner, position].

Cursor_new(b) == [inner |-> SliceVal(0, Len(b)), position |-> 0]

Cursor_get_ref(c) == c.inner

Cursor_position(c) == c.position

Cursor_len(c) == c.inner.len

Cursor_remaining(c) ==
  IF Cursor_position(c) >= Cursor_len(c)
  THEN 0
  ELSE Cursor_len(c) - Cursor_position(c)

\* has_remaining that lets the position reach the length (off by one).
Cursor_has_remaining_inclusive(c) == Cursor_position(c) <= Cursor_len(c)

Cursor_has_remaining(c) == Cursor_remaining(c) > 0

Cursor_view(c, from, to) == IndexRange(c.inner, from, to)

Cursor_view_from(c, from) == IndexRange(c.inner, from, c.inner.len)

Cursor_view_to(c, to) == IndexRange(c.inner, 0, to)

\* What a call leaves behind: the cursor, the value returned, and the
\* unchecked read it made (NoRead when it made none).
Outcome(c, r, rd) == [c |-> c, ret |-> r, read |-> rd]

\* advance that compares the count with the length, not with what remains.
Cursor_advance_by_len(c, count) ==
  IF Cursor_len(c) > count
  THEN LET moved == [c EXCEPT !.position = c.position + count]
           v == Cursor_view_from(moved, moved.position)
       IN IF v.tag = "Panic"
          THEN Outcome(moved, Panic, NoRead)
          ELSE Outcome([moved EXCEPT !.inner = v], Unit, NoRead)
  ELSE Outcome(c, Unit, NoRead)

Cursor_advance(c, count) ==
  IF Cursor_remaining(c) > count
  THEN LET moved == [c EXCEPT !.position = c.position + count]
           v == Cursor_view_from(moved, moved.position)
       IN IF v.tag = "Panic"
          THEN Outcome(moved, Panic, NoRead)
          ELSE Outcome([moved EXCEPT !.inner = v], Unit, NoRead)
  ELSE Outcome(c, Unit, NoRead)

\* peek_to that hands out whatever is there, however short.
Cursor_peek_to_clamped(c, count) ==
  LET to == IF count <= Cursor_len(c) THEN count ELSE Cursor_len(c)
  IN Outcome(c, SomeSlice(Cursor_view_to(c, to)), NoRead)

\* `then_some` takes its argument by value: view_to(count) is evaluated, and
\* can panic, whatever the comparison says.
Cursor_peek_to(c, count) ==
  LET enough == Cursor_remaining(c) >= count
      v == Cursor_view_to(c, count)
  IN IF v.tag = "Panic"
     THEN Outcome(c, Panic, NoRead)
     ELSE IF enough /\ v.len = count
          THEN Outcome(c, SomeSlice(v), NoRead)
          ELSE Outcome(c, None, NoRead)

\* assert_eq!(left, &self.inner[from..to]): the index may panic, and so may
\* the comparison of the contents.
AssertEqIndex(left, c, from, to) ==
  LET right == IndexRange(c.inner, from, to)
  IN right.tag # "Panic" /\ Content(left) = Content(right)

Cursor_split_at(c, mid) ==
  IF Cursor_remaining(c) >= mid
  THEN LET before == IndexRange(c.inner, 0, mid)
           after == IndexRange(c.inner, mid, c.inner.len)
           moved == [c EXCEPT !.position = c.position + mid]
       IN IF before.tag = "Panic" \/ after.tag = "Panic"
          THEN Outcome(c, Panic, NoRead)
          ELSE IF ~AssertEqIndex(before, c, c.position, mid)
          THEN Outcome(c, Panic, NoRead)
          ELSE IF ~AssertEqIndex(after, c, mid, c.inner.len)
          THEN Outcome(c, Panic, NoRead)
          ELSE IF ~AssertEqIndex(after, moved, moved.position, c.inner.len)
          THEN Outcome(moved, Panic, NoRead)
          ELSE Outcome(moved, Pair(before, after), NoRead)
  ELSE Outcome(c, Pair(SliceVal(0, 0), c.inner), NoRead)

\* `self.inner.get_unchecked(i)`: the item at i when i is in bounds, and
\* otherwise undefined behaviour: whatever byte the read comes back with.
GetUnchecked(s, i) ==
  IF i < s.len THEN {buf[s.off + i + 1]} ELSE Bytes

\* next that pairs the item with the position it was read at.
Cursor_next_pre_increment(c) ==
  IF Cursor_has_remaining(c)
  THEN {Outcome([c EXCEPT !.position = c.position + 1],
                SomeItem(c.position, item),
                [idx |-> c.position, len |-> c.inner.len])
          : item \in GetUnchecked(c.inner, c.position)}
  ELSE {Outcome(c, None, NoRead)}

\* Iterator::next.  The outcomes are a set: an out-of-bounds unchecked read
\* may yield any byte.
Cursor_next(c) ==
  IF Cursor_has_remaining(c)
  THEN {Outcome([c EXCEPT !.position = c.position + 1],
                SomeItem(c.position + 1, item),
                [idx |-> c.position, len |-> c.inner.len])
          : item \in GetUnchecked(c.inner, c.position)}
  ELSE {Outcome(c, None, NoRead)}

Cursor_next_item(c) == Cursor_next(c)

Cursor_offset(c, offset) ==
  IF Cursor_remaining(c) >= offset
  THEN LET a == Cursor_advance(c, offset)
       IN IF a.ret.tag = "Panic" THEN {a} ELSE Cursor_next_item(a.c)
  ELSE {Outcome(c, None, NoRead)}

Cursor_item_at(c, count) ==
  IF Cursor_remaining(c) >= count
  THEN Cursor_next([c EXCEPT !.position = c.position + count])
  ELSE {Outcome(c, None, NoRead)}

-----------------------------------------------------------------------------
\* The cursor under test and the calls made on it.

cursor == [inner |-> inner, position |-> position]

NoTrail == [only |-> "fresh", nexts |-> 0, consumed |-> 0]

InitCursor ==
  /\ subject = "cursor"
  /\ buf \in Buffers
  /\ base = 0
  /\ build = "any"
  /\ slice = SliceVal(0, 0)
  /\ inner = Cursor_new(buf).inner
  /\ position = Cursor_new(buf).position
  /\ status = "ok"
  /\ call = NoCall
  /\ ret = Unit
  /\ trail = NoTrail
  /\ self = NoSelf

\* The calls made since construction, as far as the properties need them:
\*   only      "fresh" before any call; "advance" or "next_item" while every
\*             call so far was of that one kind; "mixed" otherwise
\*   nexts     the number of next_item calls, while only = "next_item"
\*   consumed  the sum of the counts of the advance calls that changed the
\*             cursor, while only = "advance"
Trail(kind, n, changed) ==
  LET only == IF kind # "other" /\ trail.only \in {"fresh", kind} THEN kind ELSE "mixed"
  IN [only |-> only,
      nexts |-> IF only = "next_item" THEN trail.nexts + 1 ELSE 0,
      consumed |-> IF only = "advance"
                   THEN trail.consumed + (IF changed THEN n ELSE 0)
                   ELSE 0]

\* A call `op(args)` on the cursor with outcome o.
Called(op, args, o, kind) ==
  /\ subject = "cursor"
  /\ status = "ok"
  /\ inner' = o.c.inner
  /\ position' = o.c.position
  /\ ret' = o.ret
  /\ status' = IF o.ret.tag = "Panic" THEN "panicked" ELSE "ok"
  /\ call' = [op |-> op, args |-> args, inner |-> inner, position |-> position,
              read |-> o.read]
  /\ trail' = Trail(kind, IF args = <<>> THEN 0 ELSE args[1], o.c # cursor)
  /\ UNCHANGED <<subject, buf, base, build, slice, self>>

Advance == \E n \in Counts : Called("advance", <<n>>, Cursor_advance(cursor, n), "advance")

PeekTo == \E n \in Counts : Called("peek_to", <<n>>, Cursor_peek_to(cursor, n), "other")

SplitAt == \E n \in Counts : Called("split_at", <<n>>, Cursor_split_at(cursor, n), "other")

\* Iterator::next, called directly or through next_item.
NextItem ==
  /\ trail.nexts < Len(buf) + ExtraCalls
  /\ \E op \in {"next", "next_item"} : \E o \in Cursor_next_item(cursor) :
       Called(op, <<>>, o, "next_item")

Offset ==
  \E n \in Counts : \E o \in Cursor_offset(cursor, n) : Called("offset", <<n>>, o, "other")

ItemAt ==
  \E n \in Counts : \E o \in Cursor_item_at(cursor, n) : Called("item_at", <<n>>, o, "other")

\* The View operations of the cursor: they return a slice and leave the
\* cursor alone.
CursorView ==
  \E i \in Counts, j \in Counts :
    Called("view", <<i, j>>, Outcome(cursor, Cursor_view(cursor, i, j), NoRead), "other")

CursorViewFrom ==
  \E i \in Counts :
    Called("view_from", <<i>>, Outcome(cursor, Cursor_view_from(cursor, i), NoRead), "other")

CursorViewTo ==
  \E j \in Counts :
    Called("view_to", <<j>>, Outcome(cursor, Cursor_view_to(cursor, j), NoRead), "other")

\* The calls that move or read through the cursor.
NextCursor == Advance \/ PeekTo \/ SplitAt \/ NextItem \/ Offset \/ ItemAt

\* The calls that take a view of what the cursor holds.
NextCursorView == CursorView \/ CursorViewFrom \/ CursorViewTo

SpecCursor == InitCursor /\ [][NextCursor]_vars

-----------------------------------------------------------------------------
\* Range operations on `&[u8]` (src/slice.rs, src/view.rs, src/span.rs).

Min(a, b) == IF a <= b THEN a ELSE b

\* Slice<Range<usize>>::slice on `&[T]`: `&self[range]`.  RangeFrom and
\* RangeTo are the ranges from..len and 0..to.
Slice_slice(s, from, to) == IndexRange(s, from, to)

\* view that slices up to the range's end and forgets its start.
View_view_to_end_only(s, from, to) == Slice_slice(s, 0, to)

\* View for &[u8] in src/view.rs.
View_view(s, from, to) == Slice_slice(s, from, to)

View_view_from(s, from) == Slice_slice(s, from, s.len)

View_view_to(s, to) == Slice_slice(s, 0, to)

\* View for &[u8] in src/slice.rs: the same three operations, again.
SliceView_view(s, from, to) == Slice_slice(s, from, to)

SliceView_view_from(s, from) == Slice_slice(s, from, s.len)

SliceView_view_to(s, to) == Slice_slice(s, 0, to)

\* Span for &[u8] in src/span.rs.
U8Span_over(s, start, end) == IndexRange(s, start, end)

U8Span_to(s, index) ==
  LET end == Min(index, s.len)
  IN IndexRange(s, 0, end)

ViewCounts == 0..(MaxViewLen + 1)

ViewBuffers == SeqsUpTo(Bytes, MaxViewLen)

NoChain == [args |-> <<>>, slice |-> SliceVal(0, 0)]

NoSliceCall == [op |-> "none", impl |-> "none", args |-> <<>>, slice |-> SliceVal(0, 0),
                after |-> NoChain]

InitBytes ==
  /\ subject = "bytes"
  /\ buf \in ViewBuffers
  /\ base = 0
  /\ build = "any"
  /\ slice = SliceVal(0, Len(buf))
  /\ inner = SliceVal(0, 0)
  /\ position = 0
  /\ status = "ok"
  /\ call = NoSliceCall
  /\ ret = Unit
  /\ trail = NoTrail
  /\ self = NoSelf

\* A call `op(args)` on the slice that returned r.  A returned slice
\* becomes the slice the next call is made on.  `after` remembers the
\* view(i..j) call that a view_to call directly follows.
SliceCalled(op, impl, args, r) ==
  /\ status = "ok"
  /\ ret' = r
  /\ status' = IF r.tag = "Panic" THEN "panicked" ELSE "ok"
  /\ slice' = IF r.tag = "Slice" THEN r ELSE slice
  /\ call' = [op |-> op, impl |-> impl, args |-> args, slice |-> slice,
              after |-> IF op = "view_to" /\ call.op = "view"
                        THEN [args |-> call.args, slice |-> call.slice]
                        ELSE NoChain]
  /\ UNCHANGED <<subject, buf, base, build, inner, position, trail, self>>

BytesView ==
  /\ subject = "bytes"
  /\ \E i \in ViewCounts, j \in ViewCounts :
       \/ SliceCalled("view", "view.rs", <<i, j>>, View_view(slice, i, j))
       \/ SliceCalled("view", "slice.rs", <<i, j>>, SliceView_view(slice, i, j))

BytesViewFrom ==
  /\ subject = "bytes"
  /\ \E i \in ViewCounts :
       \/ SliceCalled("view_from", "view.rs", <<i>>, View_view_from(slice, i))
       \/ SliceCalled("view_from", "slice.rs", <<i>>, SliceView_view_from(slice, i))

BytesViewTo ==
  /\ subject = "bytes"
  /\ \E j \in ViewCounts :
       \/ SliceCalled("view_to", "view.rs", <<j>>, View_view_to(slice, j))
       \/ SliceCalled("view_to", "slice.rs", <<j>>, SliceView_view_to(slice, j))

BytesOver ==
  /\ subject = "bytes"
  /\ \E i \in ViewCounts, j \in ViewCounts :
       SliceCalled("over", "span.rs", <<i, j>>, U8Span_over(slice, i, j))

BytesTo ==
  /\ subject = "bytes"
  /\ \E i \in ViewCounts :
       SliceCalled("to", "span.rs", <<i>>, U8Span_to(slice, i))

\* The View operations of a byte slice.
NextBytes == BytesView \/ BytesViewFrom \/ BytesViewTo

\* The Span operations of a byte slice.
NextBytesSpan == BytesOver \/ BytesTo

SpecBytes == InitBytes /\ [][NextBytes]_vars

-----------------------------------------------------------------------------
\* View::remaining / has_remaining on `&[u8]` (src/view.rs).

Addrs == 1..MaxAddr

Builds == {"debug", "release"}

\* `self.as_ptr() as usize`: the address of the slice's first item.
AsPtr(s) == base + s.off

\* usize subtraction: on overflow a panic where overflow checks are compiled
\* in (debug), and the wrapped difference where they are not (release).
UsizeSub(a, b) ==
  IF a >= b THEN Usize(a - b)
  ELSE IF build = "debug" THEN Panic
  ELSE Usize(a - b + 2 ^ UsizeBits)

View_remaining(s) ==
  LET pos == AsPtr(s)
      len == s.len
  IN UsizeSub(pos, len)

View_has_remaining(s) ==
  LET r == View_remaining(s)
  IN IF r.tag = "Panic" THEN Panic ELSE Bool(r.val > 0)

\* Every slice of the buffer: the handles the range operations can yield.
SubSlices(b) ==
  {SliceVal(p[1], p[2]) :
     p \in {q \in (0..Len(b)) \X (0..Len(b)) : q[1] + q[2] <= Len(b)}}

InitRemaining ==
  /\ subject = "remaining"
  /\ buf \in ViewBuffers
  /\ base \in Addrs
  /\ build \in Builds
  /\ slice \in SubSlices(buf)
  /\ inner = SliceVal(0, 0)
  /\ position = 0
  /\ status = "ok"
  /\ call = NoSliceCall
  /\ ret = Unit
  /\ trail = NoTrail
  /\ self = NoSelf

Remaining ==
  /\ subject = "remaining"
  /\ SliceCalled("remaining", "view.rs", <<>>, View_remaining(slice))

HasRemaining ==
  /\ subject = "remaining"
  /\ SliceCalled("has_remaining", "view.rs", <<>>, View_has_remaining(slice))

NextRemaining == Remaining \/ HasRemaining

SpecRemaining == InitRemaining /\ [][NextRemaining]_vars

-----------------------------------------------------------------------------
\* Span::over / Span::to on `&str` (src/span.rs).  The buffer holds the
\* UTF-8 encoding of the text; offsets are byte offsets.

\* The characters the texts are made of, as their UTF-8 encodings:
\* 'a' (one byte) and U+00E9 (two bytes).
TextChars == {<<97>>, <<195, 169>>}

RECURSIVE Texts(_)
Texts(n) ==
  IF n = 0 THEN {<<>>}
  ELSE Texts(n - 1) \cup {t \o c : t \in Texts(n - 1), c \in TextChars}

TextBuffers == Texts(MaxChars)

\* Byte offsets the text calls are made with: up to one past the longest text.
TextCounts == 0..(2 * MaxChars + 1)

\* A UTF-8 continuation byte: 0b10xxxxxx.
IsContinuation(b) == 128 <= b /\ b <= 191

\* str::is_char_boundary.
IsCharBoundary(s, i) ==
  \/ i = 0
  \/ i = s.len
  \/ i < s.len /\ ~IsContinuation(buf[s.off + i + 1])

\* `&s[from..to]` on a str: the bounds must be in range and on character
\* boundaries.
StrIndexRange(s, from, to) ==
  IF from <= to /\ to <= s.len /\ IsCharBoundary(s, from) /\ IsCharBoundary(s, to)
  THEN SliceVal(s.off + from, to - from)
  ELSE Panic

Str_over(s, start, end) == StrIndexRange(s, start, end)

\* The two debug_assert!s are compiled in under debug only.
Str_to(s, index) ==
  LET end == Min(index, s.len)
      start == AsPtr(s)
  IN IF build = "debug" /\ ~(start <= end) THEN Panic
     ELSE IF build = "debug" /\ ~(index = end) THEN Panic
     ELSE StrIndexRange(s, 0, end)

InitStr ==
  /\ subject = "str"
  /\ buf \in TextBuffers
  /\ base \in Addrs
  /\ build \in Builds
  /\ slice = SliceVal(0, Len(buf))
  /\ inner = SliceVal(0, 0)
  /\ position = 0
  /\ status = "ok"
  /\ call = NoSliceCall
  /\ ret = Unit
  /\ trail = NoTrail
  /\ self = NoSelf

StrOver ==
  /\ subject = "str"
  /\ \E i \in TextCounts, j \in TextCounts :
       SliceCalled("over", "span.rs", <<i, j>>, Str_over(slice, i, j))

StrTo ==
  /\ subject = "str"
  /\ \E i \in TextCounts :
       SliceCalled("to", "span.rs", <<i>>, Str_to(slice, i))

NextStr == StrOver \/ StrTo

SpecStr == InitStr /\ [][NextStr]_vars

-----------------------------------------------------------------------------
\* Every sub-range operation: those of the cursor, of `&[u8]` and of `&str`.

InitSubrange == InitCursor \/ InitBytes \/ InitStr

NextSubrange == NextCursor \/ NextCursorView \/ NextBytes \/ NextBytesSpan \/ NextStr

SpecSubrange == InitSubrange /\ [][NextSubrange]_vars

-----------------------------------------------------------------------------
\* Span::split_when on `&[u8]` (src/span.rs).

\* The closures split_when is called with: a closure is the set of items
\* it returns true for.
BytePredicates == SUBSET Bytes

\* Iterator::position: the index of the first of `items` the closure holds
\* for, looking from the i-th on; None when it holds for none.
RECURSIVE PositionFrom(_, _, _)
PositionFrom(items, when, i) ==
  IF i > Len(items) THEN None
  ELSE IF items[i] \in when THEN Usize(i - 1)
  ELSE PositionFrom(items, when, i + 1)

Position(items, when) == PositionFrom(items, when, 1)

\* slice::split_at / str::split_at without the boundary check.
SplitAtIndex(s, mid) ==
  SomePair(SliceVal(s.off, mid), SliceVal(s.off + mid, s.len - mid))

\* slice::split_at: panics when mid > len.
Slice_split_at(s, mid) ==
  IF mid <= s.len THEN SplitAtIndex(s, mid) ELSE Panic

U8Span_split_when_after_match(s, when) ==
  LET index == Position(Content(s), when)
  IN IF index = None THEN None ELSE Slice_split_at(s, index.val + 1)

U8Span_split_when(s, when) ==
  LET index == Position(Content(s), when)
  IN IF index = None THEN None ELSE Slice_split_at(s, index.val)

\* A byte slice anywhere in a buffer.
InitBytesAny ==
  /\ subject = "bytes"
  /\ buf \in ViewBuffers
  /\ base = 0
  /\ build = "any"
  /\ slice \in SubSlices(buf)
  /\ inner = SliceVal(0, 0)
  /\ position = 0
  /\ status = "ok"
  /\ call = NoSliceCall
  /\ ret = Unit
  /\ trail = NoTrail
  /\ self = NoSelf

BytesSplitWhen ==
  /\ subject = "bytes"
  /\ \E when \in BytePredicates :
       SliceCalled("split_when", "span.rs", <<when>>, U8Span_split_when(slice, when))

SpecSplitWhen == InitBytesAny /\ [][BytesSplitWhen]_vars

-----------------------------------------------------------------------------
\* Span::split_when on `&str` (src/span.rs).

CharPredicates == SUBSET TextChars

\* The number of bytes of the UTF-8 encoding that starts with byte b.
Utf8Width(b) == IF b < 128 THEN 1 ELSE 2

\* str::chars: the characters of a text, each as its encoding.
RECURSIVE Chars(_)
Chars(bytes) ==
  IF bytes = <<>> THEN <<>>
  ELSE LET w == Utf8Width(bytes[1])
       IN <<SubSeq(bytes, 1, w)>> \o Chars(SubSeq(bytes, w + 1, Len(bytes)))

\* str::split_at: panics unless mid is a character boundary of the text.
Str_split_at(s, mid) ==
  IF mid <= s.len /\ IsCharBoundary(s, mid) THEN SplitAtIndex(s, mid) ELSE Panic

\* `position` counts characters; split_at takes the count as a byte offset.
Str_split_when(s, when) ==
  LET index == Position(Chars(Content(s)), when)
  IN IF index = None THEN None ELSE Str_split_at(s, index.val)

StrSplitWhen ==
  /\ subject = "str"
  /\ \E when \in CharPredicates :
       SliceCalled("split_when", "span.rs", <<when>>, Str_split_when(slice, when))

SpecStrSplitWhen == InitStr /\ [][StrOver \/ StrSplitWhen]_vars

-----------------------------------------------------------------------------
\* Collection::as_enum on `&[u8]` and `&str` (src/collection.rs).  The
\* iterator returned is modelled by the sequence of pairs it yields.

\* Iterator::enumerate: each item with its ordinal index.
Enumerate(items) ==
  [i \in 1..Len(items) |-> [off |-> i - 1, item |-> items[i]]]

\* str::char_indices: each character with the byte offset it starts at,
\* counting from `at` for the first.
RECURSIVE CharIndices(_, _)
CharIndices(bytes, at) ==
  IF bytes = <<>> THEN <<>>
  ELSE LET w == Utf8Width(bytes[1])
       IN <<[off |-> at, item |-> SubSeq(bytes, 1, w)]>>
            \o CharIndices(SubSeq(bytes, w + 1, Len(bytes)), at + w)

U8_as_iter(s) == Content(s)

U8_as_enum(s) == Enum(Enumerate(U8_as_iter(s)))

Str_as_iter(s) == Chars(Content(s))

Str_as_enum_by_ordinal(s) == Enum(Enumerate(Str_as_iter(s)))

Str_as_enum(s) == Enum(CharIndices(Content(s), 0))

BytesAsEnum ==
  /\ subject = "bytes"
  /\ SliceCalled("as_enum", "collection.rs", <<>>, U8_as_enum(slice))

StrAsEnum ==
  /\ subject = "str"
  /\ SliceCalled("as_enum", "collection.rs", <<>>, Str_as_enum(slice))

InitAsEnum == InitBytesAny \/ InitStr

SpecAsEnum == InitAsEnum /\ [][BytesAsEnum \/ StrAsEnum \/ StrOver]_vars

-----------------------------------------------------------------------------
\* Sequence for Cursor and Cursor::into_vec (src/cursor.rs).

Cursor_iter_copied(c) == Content(c.inner)

Cursor_iter_indices(c) == Enum(Enumerate(Cursor_iter_copied(c)))

\* The cursor is Copy: into_vec collects from a copy and leaves it alone.
Cursor_into_vec(c) == Cursor_iter_indices(c)

IterIndices ==
  Called("iter_indices", <<>>, Outcome(cursor, Cursor_iter_indices(cursor), NoRead), "other")

IntoVec ==
  Called("into_vec", <<>>, Outcome(cursor, Cursor_into_vec(cursor), NoRead), "other")

SpecCursorEnum == InitCursor /\ [][Advance \/ NextItem \/ IterIndices \/ IntoVec]_vars

\* The cursor under new, advance, next_item and split_at alone.
SpecCursorSplit == InitCursor /\ [][Advance \/ NextItem \/ SplitAt]_vars

-----------------------------------------------------------------------------
\* Error kinds and status codes (src/error.rs).

ErrorKinds ==
  {"EndOfInput", "IncompatibleTypes", "MalformedData", "MissingData", "Unknown"}

\* The u16 codes the conversions are tried on.
Codes == 0..MaxCode

ErrorKind(k) == [tag |-> "ErrorKind", kind |-> k]

StatusCode(c) == [tag |-> "StatusCode", code |-> c]

ErrorKind_default == ErrorKind("Unknown")

ErrorKind_as_code(k) ==
  CASE k.kind = "EndOfInput" -> StatusCode(0)
    [] k.kind = "IncompatibleTypes" -> StatusCode(1)
    [] k.kind = "MalformedData" -> StatusCode(2)
    [] k.kind = "MissingData" -> StatusCode(3)
    [] k.kind = "Unknown" -> StatusCode(4)

\* From<StatusCode> without the arm for code 3.
ErrorKind_from_without_missing_data(code) ==
  CASE code.code = 0 -> ErrorKind("EndOfInput")
    [] code.code = 1 -> ErrorKind("IncompatibleTypes")
    [] code.code = 2 -> ErrorKind("MalformedData")
    [] code.code = 4 -> ErrorKind("Unknown")
    [] OTHER -> ErrorKind_default

\* From<StatusCode> for ErrorKind.
ErrorKind_from(code) ==
  CASE code.code = 0 -> ErrorKind("EndOfInput")
    [] code.code = 1 -> ErrorKind("IncompatibleTypes")
    [] code.code = 2 -> ErrorKind("MalformedData")
    [] code.code = 3 -> ErrorKind("MissingData")
    [] code.code = 4 -> ErrorKind("Unknown")
    [] OTHER -> ErrorKind_default

\* From<ErrorKind> for StatusCode.
StatusCode_from(k) ==
  CASE k.kind = "EndOfInput" -> StatusCode(0)
    [] k.kind = "IncompatibleTypes" -> StatusCode(1)
    [] k.kind = "MalformedData" -> StatusCode(2)
    [] k.kind = "MissingData" -> StatusCode(3)
    [] k.kind = "Unknown" -> StatusCode(4)

\* The offsets an ErrorWithContext is built with: none, or (start, end).
Offsets == {None} \cup {Pair(a, b) : a \in 0..1, b \in 0..1}

\* The debug_assert! is compiled in under debug only.
ErrorWithContext_new(offset, code) ==
  IF offset # None /\ build = "debug" /\ ~(offset.fst <= offset.snd)
  THEN Panic
  ELSE [tag |-> "ErrorWithContext", offset |-> offset, code |-> code]

ErrorWithContext_kind(e) ==
  CASE e.code = 0 -> ErrorKind("EndOfInput")
    [] e.code = 1 -> ErrorKind("IncompatibleTypes")
    [] e.code = 2 -> ErrorKind("MalformedData")
    [] e.code = 3 -> ErrorKind("MissingData")
    [] e.code = 4 -> ErrorKind("Unknown")
    [] OTHER -> ErrorKind_default

ErrorMessage_new(k) == [tag |-> "ErrorMessage", kind |-> k.kind]

\* The value under test is an error kind or a status code; each call is
\* made on the value the call before it returned.  `trail` is the sequence
\* of the calls made: [op, args, on, ret].
InitError ==
  /\ subject = "error"
  /\ buf = <<>>
  /\ base = 0
  /\ build \in Builds
  /\ slice = SliceVal(0, 0)
  /\ inner = SliceVal(0, 0)
  /\ position = 0
  /\ status = "ok"
  /\ call = [op |-> "none", args |-> <<>>, on |-> NoSelf]
  /\ ret = Unit
  /\ trail = <<>>
  /\ self \in {ErrorKind(k) : k \in ErrorKinds} \cup {StatusCode(c) : c \in Codes}

ErrorCalled(op, args, r) ==
  /\ subject = "error"
  /\ status = "ok"
  /\ Len(trail) < ErrSteps
  /\ ret' = r
  /\ status' = IF r.tag = "Panic" THEN "panicked" ELSE "ok"
  /\ self' = IF r.tag = "Panic" THEN self ELSE r
  /\ call' = [op |-> op, args |-> args, on |-> self]
  /\ trail' = Append(trail, [op |-> op, args |-> args, on |-> self, ret |-> r])
  /\ UNCHANGED <<subject, buf, base, build, slice, inner, position>>

AsCode ==
  /\ self.tag = "ErrorKind"
  /\ ErrorCalled("as_code", <<>>, ErrorKind_as_code(self))

StatusCodeFrom ==
  /\ self.tag = "ErrorKind"
  /\ ErrorCalled("StatusCode::from", <<>>, StatusCode_from(self))

ErrorKindFrom ==
  /\ self.tag = "StatusCode"
  /\ ErrorCalled("ErrorKind::from", <<>>, ErrorKind_from(self))

NewErrorWithContext ==
  /\ self.tag = "StatusCode"
  /\ \E offset \in Offsets :
       ErrorCalled("ErrorWithContext::new", <<offset>>,
                   ErrorWithContext_new(offset, self.code))

Kind ==
  /\ self.tag = "ErrorWithContext"
  /\ ErrorCalled("kind", <<>>, ErrorWithContext_kind(self))

NewErrorMessage ==
  /\ self.tag = "ErrorKind"
  /\ ErrorCalled("ErrorMessage::new", <<>>, ErrorMessage_new(self))

\* Reading the `kind` field of an ErrorMessage.
MessageKind ==
  /\ self.tag = "ErrorMessage"
  /\ ErrorCalled(".kind", <<>>, ErrorKind(self.kind))

NextError ==
  \/ AsCode
  \/ StatusCodeFrom
  \/ ErrorKindFrom
  \/ NewErrorWithContext
  \/ Kind
  \/ NewErrorMessage
  \/ MessageKind

SpecError == InitError /\ [][NextError]_vars

-----------------------------------------------------------------------------
\* Calls on a struct held in `self`: `op(args)` leaves the struct as `next`
\* and returns r.

NoSelfCall == [op |-> "none", args |-> <<>>, on |-> NoSelf]

SelfCalled(op, args, next, r) ==
  /\ status = "ok"
  /\ self' = next
  /\ ret' = r
  /\ status' = IF r.tag = "Panic" THEN "panicked" ELSE "ok"
  /\ call' = [op |-> op, args |-> args, on |-> self]
  /\ UNCHANGED <<subject, buf, base, build, slice, inner, position>>

\* slice::split_first: None on an empty slice, else the first item (by
\* its place in the buffer) and the slice of the rest.
Slice_split_first(s) ==
  IF s.len = 0 THEN None
  ELSE [tag |-> "Some", first |-> s.off, rest |-> SliceVal(s.off + 1, s.len - 1)]

-----------------------------------------------------------------------------
\* Bytes (src/collection.rs).  A Bytes value is [inner].

\* The bytes the token buffers are made of: ' ', '0' and '1'.
TokenBytes == {32, 48, 49}

TokenBuffers == SeqsUpTo(TokenBytes, MaxViewLen)

\* u8::is_ascii_whitespace: space, tab, line feed, form feed, carriage return.
IsAsciiWhitespace(b) == b \in {32, 9, 10, 12, 13}

Bytes_new(s) == [tag |-> "Bytes", inner |-> s]

Bytes_inner(b) == b.inner

\* `&b""[..]`: an empty slice.
Bytes_clear(b) == [b EXCEPT !.inner = SliceVal(0, 0)]

\* `start` and `end` are computed from the first byte and never read: what
\* is returned is the rest after the first byte.
Bytes_next_token(b) ==
  LET split == Slice_split_first(b.inner)
  IN IF split = None THEN None
     ELSE LET first == buf[split.first + 1]
              tail == split.rest
              start == IF IsAsciiWhitespace(first) THEN 1 ELSE 0
              end0 == IF IsAsciiWhitespace(first) THEN start + 1 ELSE 0
              end == IF start >= end0 THEN end0 + 1 ELSE end0
          IN SomeSlice(tail)

\* Iterator::next: the cursor-like step over the bytes.
Bytes_next(b) ==
  LET split == Slice_split_first(b.inner)
  IN IF split = None
     THEN [self |-> b, ret |-> None]
     ELSE [self |-> [b EXCEPT !.inner = split.rest], ret |-> SomeRef(split.first)]

InitTokens ==
  /\ subject = "tokens"
  /\ buf \in TokenBuffers
  /\ base = 0
  /\ build = "any"
  /\ slice = SliceVal(0, 0)
  /\ inner = SliceVal(0, 0)
  /\ position = 0
  /\ status = "ok"
  /\ call = NoSelfCall
  /\ ret = Unit
  /\ trail = NoTrail
  /\ self = Bytes_new(SliceVal(0, Len(buf)))

TokensCalled(op, next, r) ==
  /\ subject = "tokens"
  /\ SelfCalled(op, <<>>, next, r)
  /\ UNCHANGED trail

BytesInner == TokensCalled("inner", self, Bytes_inner(self))

BytesClear == TokensCalled("clear", Bytes_clear(self), Unit)

BytesNextToken == TokensCalled("next_token", self, Bytes_next_token(self))

BytesNext == TokensCalled("next", Bytes_next(self).self, Bytes_next(self).ret)

NextTokens == BytesInner \/ BytesClear \/ BytesNextToken \/ BytesNext

SpecTokens == InitTokens /\ [][NextTokens]_vars

-----------------------------------------------------------------------------
\* The crate root's Slice and Span on `&[u8]` (src/lib.rs).

\* Slice<Range<usize>>::slice: `&self[range]`.
LibSlice_slice(s, from, to) == IndexRange(s, from, to)

\* `self.slice(..range.end)`: the start of the range is not used.
LibSpan_view(s, start, end) == LibSlice_slice(s, 0, end)

LibSpan_remaining(s) == LibSlice_slice(s, 0, s.len)

LibSpan_has_remaining(s) ==
  LET r == LibSpan_remaining(s)
  IN IF r.tag = "Panic" THEN Panic ELSE Bool(~(r.len = 0))

InitLibSpan ==
  /\ subject = "libspan"
  /\ buf \in ViewBuffers
  /\ base = 0
  /\ build = "any"
  /\ slice = SliceVal(0, Len(buf))
  /\ inner = SliceVal(0, 0)
  /\ position = 0
  /\ status = "ok"
  /\ call = NoSliceCall
  /\ ret = Unit
  /\ trail = NoTrail
  /\ self = NoSelf

LibSlice ==
  /\ subject = "libspan"
  /\ \E i \in ViewCounts, j \in ViewCounts :
       SliceCalled("slice", "lib.rs", <<i, j>>, LibSlice_slice(slice, i, j))

LibView ==
  /\ subject = "libspan"
  /\ \E i \in ViewCounts, j \in ViewCounts :
       SliceCalled("view", "lib.rs", <<i, j>>, LibSpan_view(slice, i, j))

LibRemaining ==
  /\ subject = "libspan"
  /\ SliceCalled("remaining", "lib.rs", <<>>, LibSpan_remaining(slice))

LibHasRemaining ==
  /\ subject = "libspan"
  /\ SliceCalled("has_remaining", "lib.rs", <<>>, LibSpan_has_remaining(slice))

NextLibSpan == LibSlice \/ LibView \/ LibRemaining \/ LibHasRemaining

SpecLibSpan == InitLibSpan /\ [][NextLibSpan]_vars

-----------------------------------------------------------------------------
\* ByteSpan and StrSpan (src/span.rs).  A span value is [slice, start, end].

ByteSpan_new(s) == [tag |-> "ByteSpan", slice |-> s, start |-> 0, end |-> s.len]

StrSpan_new(s) == [tag |-> "StrSpan", slice |-> s, start |-> 0, end |-> s.len]

\* core::str::from_utf8, as far as one- and two-byte encodings go.
RECURSIVE IsUtf8(_)
IsUtf8(bytes) ==
  IF bytes = <<>> THEN TRUE
  ELSE IF bytes[1] < 128 THEN IsUtf8(Tail(bytes))
  ELSE /\ 194 <= bytes[1] /\ bytes[1] <= 223
       /\ Len(bytes) >= 2
       /\ IsContinuation(bytes[2])
       /\ IsUtf8(Tail(Tail(bytes)))

ByteSpan_as_bytes(sp) == sp.slice

ByteSpan_as_str(sp) ==
  IF IsUtf8(Content(ByteSpan_as_bytes(sp))) THEN sp.slice ELSE Panic

StrSpan_as_bytes(sp) == sp.slice

StrSpan_as_str(sp) == sp.slice

Span_start(sp) == Usize(sp.start)

Span_end(sp) == Usize(sp.end)

ByteSpan_next(sp) ==
  LET split == Slice_split_first(sp.slice)
  IN IF split # None
     THEN [self |-> [sp EXCEPT !.slice = split.rest], ret |-> SomeRef(split.first)]
     ELSE [self |-> sp, ret |-> None]

\* mem::take leaves "" in self.slice and returns what was there, and the
\* assignment puts that back: the slice is what it was.
StrSpan_next(sp) ==
  LET chars == Chars(Content(sp.slice))
  IN IF chars # <<>>
     THEN LET taken == sp.slice
              emptied == [sp EXCEPT !.slice = SliceVal(0, 0)]
          IN [self |-> [emptied EXCEPT !.slice = taken], ret |-> SomeChar(chars[1])]
     ELSE [self |-> sp, ret |-> None]

\* The calls of next() made so far and the items they yielded.
NoYield == [nexts |-> 0, yielded |-> <<>>]

InitSpan ==
  /\ subject = "span"
  /\ base = 0
  /\ build = "any"
  /\ slice = SliceVal(0, 0)
  /\ inner = SliceVal(0, 0)
  /\ position = 0
  /\ status = "ok"
  /\ call = NoSelfCall
  /\ ret = Unit
  /\ trail = NoYield
  /\ \/ /\ buf \in ViewBuffers
        /\ self = ByteSpan_new(SliceVal(0, Len(buf)))
     \/ /\ buf \in TextBuffers
        /\ self = StrSpan_new(SliceVal(0, Len(buf)))

\* A call that is not next().
SpanRead(op, r) ==
  /\ subject = "span"
  /\ SelfCalled(op, <<>>, self, r)
  /\ UNCHANGED trail

SpanAsBytes ==
  SpanRead("as_bytes", IF self.tag = "ByteSpan" THEN ByteSpan_as_bytes(self)
                       ELSE StrSpan_as_bytes(self))

SpanAsStr ==
  SpanRead("as_str", IF self.tag = "ByteSpan" THEN ByteSpan_as_str(self)
                     ELSE StrSpan_as_str(self))

SpanStart == SpanRead("start", Span_start(self))

SpanEnd == SpanRead("end", Span_end(self))

\* Iterator::next on the span.
SpanNext ==
  /\ subject = "span"
  /\ trail.nexts < Len(buf) + ExtraCalls
  /\ LET o == IF self.tag = "ByteSpan" THEN ByteSpan_next(self) ELSE StrSpan_next(self)
     IN /\ SelfCalled("next", <<>>, o.self, o.ret)
        /\ trail' = [nexts |-> trail.nexts + 1,
                     yielded |-> IF o.ret = None THEN trail.yielded
                                 ELSE Append(trail.yielded, o.ret)]

NextSpan == SpanAsBytes \/ SpanAsStr \/ SpanStart \/ SpanEnd \/ SpanNext

SpecSpan == InitSpan /\ [][NextSpan]_vars

-----------------------------------------------------------------------------
\* The crate root's Cursor (src/lib.rs).  A cursor value is [input, position].

LibCursor_new(s) == [tag |-> "Cursor", input |-> s, position |-> 0]

LibCursor_input(c) == c.input

LibCursor_position(c) == Usize(c.position)

\* `self.input.iter().next()`: a fresh iterator over the input, so its
\* first item, whatever the position.
LibCursor_next(c) ==
  IF c.position >= c.input.len
  THEN [self |-> c, ret |-> None]
  ELSE LET moved == [c EXCEPT !.position = c.position + 1]
           first == Slice_split_first(moved.input)
       IN [self |-> moved,
           ret |-> IF first = None THEN None ELSE SomeRef(first.first)]

LibCursor_bump(c) == LibCursor_next(c)

InitLibCursor ==
  /\ subject = "libcursor"
  /\ buf \in ViewBuffers
  /\ base = 0
  /\ build = "any"
  /\ slice = SliceVal(0, 0)
  /\ inner = SliceVal(0, 0)
  /\ position = 0
  /\ status = "ok"
  /\ call = NoSelfCall
  /\ ret = Unit
  /\ trail = NoYield
  /\ self = LibCursor_new(SliceVal(0, Len(buf)))

LibCursorRead(op, r) ==
  /\ subject = "libcursor"
  /\ SelfCalled(op, <<>>, self, r)
  /\ UNCHANGED trail

LibCursorInput == LibCursorRead("input", LibCursor_input(self))

LibCursorPosition == LibCursorRead("position", LibCursor_position(self))

LibCursorStep(op, o) ==
  /\ subject = "libcursor"
  /\ trail.nexts < Len(buf) + ExtraCalls
  /\ SelfCalled(op, <<>>, o.self, o.ret)
  /\ trail' = [nexts |-> trail.nexts + 1,
               yielded |-> IF o.ret = None THEN trail.yielded
                           ELSE Append(trail.yielded, o.ret)]

LibCursorNext == LibCursorStep("next", LibCursor_next(self))

LibCursorBump == LibCursorStep("bump", LibCursor_bump(self))

NextLibCursor == LibCursorInput \/ LibCursorPosition \/ LibCursorNext \/ LibCursorBump

SpecLibCursor == InitLibCursor /\ [][NextLibCursor]_vars

-----------------------------------------------------------------------------
\* Properties of the cursor.

\* The cursor the last call was made on.
Pre == [inner |-> call.inner, position |-> call.position]

\* The count the last call was made with.
Arg == call.args[1]

DropPrefix(s, n) == SubSeq(s, n + 1, Len(s))

\* C1: in every reachable state of the cursor, 0 <= position <= length of
\* the buffer the cursor holds.
PositionWithinBuffer ==
  subject = "cursor" => 0 <= position /\ position <= inner.len

\* C2: advance(n) with n <= remaining() leaves remaining() at exactly the
\* previous remaining() minus n (0 when n = remaining()).
AdvanceReducesRemainingByCount ==
  (call.op = "advance" /\ Arg <= Cursor_remaining(Pre))
    => /\ status = "ok"
       /\ Cursor_remaining(cursor) = Cursor_remaining(Pre) - Arg

\* C3: after advance calls only, each advance(n) that changed the cursor
\* turned get_ref() g into g[n..], and get_ref() is the original buffer
\* without its first n1 + ... + nk items.
AdvanceDropsConsumedPrefix ==
  (trail.only = "advance" /\ call.op = "advance")
    => /\ status = "ok"
       /\ cursor # Pre =>
            Content(Cursor_get_ref(cursor)) = DropPrefix(Content(Cursor_get_ref(Pre)), Arg)
       /\ Content(Cursor_get_ref(cursor)) = DropPrefix(buf, trail.consumed)

\* C4: advance(n) with n > remaining() leaves position and the held buffer
\* as they were.
AdvanceBeyondRemainingIsNoOp ==
  (call.op = "advance" /\ Arg > Cursor_remaining(Pre))
    => status = "ok" /\ ret = Unit /\ cursor = Pre

AdvanceBeyondRemainingHappens ==
  /\ call.op = "advance"
  /\ Arg > Cursor_remaining(Pre)
  /\ Arg < Pre.inner.len
  /\ Pre.position > 0

\* C5: on a fresh cursor over b, the k-th next_item() returns (k, b[k-1])
\* (1-based: buf[k]) for k <= len(b), and None for every later call.
NextItemYieldsPostIncrementPairs ==
  trail.only = "next_item"
    => ret = IF trail.nexts <= Len(buf)
             THEN SomeItem(trail.nexts, buf[trail.nexts])
             ELSE None

NextItemExhausted ==
  /\ trail.only = "next_item"
  /\ Len(buf) >= 2
  /\ trail.nexts = Len(buf) + ExtraCalls
  /\ ret = None

\* C6: whenever next() makes its unchecked read inner[position], the index
\* is below the length of the held buffer.
UncheckedReadInBounds ==
  call.read # NoRead => 0 <= call.read.idx /\ call.read.idx < call.read.len

UncheckedReadAfterInterleaving ==
  /\ call.op \in {"next", "offset", "item_at"}
  /\ call.read # NoRead
  /\ trail.only = "mixed"
  /\ Pre.inner.len < Len(buf)
  /\ call.read.idx = call.read.len - 1

\* C7 as stated: peek_to(n) never returns a slice of a length other than n,
\* and returns None whenever fewer than n items remain.
PeekToNoneWhenShort ==
  call.op = "peek_to"
    => /\ ret.tag = "SomeSlice" => ret.len = Arg
       /\ Cursor_remaining(Pre) < Arg => ret = None

\* C7 as amended: peek_to(n) never returns a slice of a length other than
\* n; when fewer than n items remain it returns no slice: None if n is at
\* most the length of the held buffer, and a panic if n exceeds it.
PeekToNoneOrPanicWhenShort ==
  call.op = "peek_to"
    => /\ ret.tag = "SomeSlice" => ret.len = Arg /\ Cursor_remaining(Pre) >= Arg
       /\ Cursor_remaining(Pre) < Arg
            => ret = IF Arg <= Pre.inner.len THEN None ELSE Panic
       /\ cursor = Pre

PeekToShortReturnsNone ==
  /\ call.op = "peek_to"
  /\ Cursor_remaining(Pre) < Arg
  /\ Cursor_remaining(Pre) > 0
  /\ ret = None

-----------------------------------------------------------------------------
\* Properties of the range operations.

\* Some bound the last call asked for exceeds n.
AsksBeyond(n) == \E k \in 1..Len(call.args) : call.args[k] > n

\* C8: on a byte slice h, view(i..j) with 0 <= i <= j <= len(h) yields
\* h[i..j], view_to(j - i) on that result yields content equal to h[i..j]
\* again, and no view, view_from or view_to result reaches outside the
\* slice it was taken of (so none reaches outside the buffer).
ViewThenViewToYieldsRange ==
  /\ (call.op = "view" /\ call.args[1] <= call.args[2] /\ call.args[2] <= call.slice.len)
       => /\ ret.tag = "Slice"
          /\ Content(ret) = SubSeq(Content(call.slice), call.args[1] + 1, call.args[2])
  /\ (call.op = "view_to" /\ call.after # NoChain
        /\ call.args[1] = call.after.args[2] - call.after.args[1])
       => /\ ret.tag = "Slice"
          /\ Content(ret) = SubSeq(Content(call.after.slice),
                                    call.after.args[1] + 1, call.after.args[2])
  /\ (call.op \in {"view", "view_from", "view_to"} /\ ret.tag = "Slice")
       => /\ call.slice.off <= ret.off
          /\ ret.off + ret.len <= call.slice.off + call.slice.len
          /\ ret.off + ret.len <= Len(buf)

ViewToAfterInteriorView ==
  /\ call.op = "view_to"
  /\ call.after # NoChain
  /\ 0 < call.after.args[1]
  /\ call.after.args[1] < call.after.args[2]
  /\ call.after.args[2] < call.after.slice.len
  /\ call.args[1] = call.after.args[2] - call.after.args[1]
  /\ ret.tag = "Slice"
  /\ Content(ret) = <<1>>

\* C9: every sub-range operation (view, view_from, view_to on byte slices
\* and on the cursor; over and to on byte and text slices) that is asked
\* for a bound beyond the length fails; none returns a shorter view.
SubrangeBeyondLengthFails ==
  /\ (subject = "cursor" /\ call.op \in {"view", "view_from", "view_to"}
        /\ AsksBeyond(call.inner.len))
       => ret = Panic
  /\ (subject \in {"bytes", "str"}
        /\ call.op \in {"view", "view_from", "view_to", "over", "to"}
        /\ AsksBeyond(call.slice.len))
       => ret = Panic

\* C10: on a byte-slice View, remaining() is the number of items and
\* has_remaining() is true exactly when there is one; the answer depends on
\* the length alone, not on the address the view lives at.
RemainingCountsItems ==
  subject = "remaining"
    => /\ call.op = "remaining" => ret = Usize(call.slice.len)
       /\ call.op = "has_remaining" => ret = Bool(call.slice.len > 0)

-----------------------------------------------------------------------------
\* Properties of split_when.

\* The indices (from 0) of the items of a sequence a closure holds for.
Matches(items, when) == {i \in 0..(Len(items) - 1) : items[i + 1] \in when}

\* The smallest of a non-empty set of indices.
Least(S) == CHOOSE i \in S : \A j \in S : i <= j

\* C11: split_when(p) on a byte slice s returns None exactly when no item
\* of s satisfies p; otherwise it returns (head, tail) with head = s[0..k]
\* and tail = s[k..], k the smallest index with p(s[k]).
SplitWhenSplitsAtFirstMatch ==
  (subject = "bytes" /\ call.op = "split_when")
    => LET s == Content(call.slice)
           found == Matches(s, call.args[1])
       IN IF found = {} THEN ret = None
          ELSE /\ ret.tag = "SomePair"
               /\ ret.fst = SliceVal(call.slice.off, Least(found))
               /\ Content(ret.fst) = SubSeq(s, 1, Least(found))
               /\ Content(ret.snd) = SubSeq(s, Least(found) + 1, Len(s))

\* C11 happens: the first item matches, and the head of length 0 is not
\* the no-match result; and a later item matches, giving a longer head.
SplitWhenAtFirstItem ==
  /\ subject = "bytes"
  /\ call.op = "split_when"
  /\ ret.tag = "SomePair"
  /\ ret.fst.len = 0
  /\ ret.snd.len >= 2
  /\ call.slice.off > 0

\* C12: split_when(p) on a text s returns None exactly when no character
\* of s satisfies p; otherwise head is exactly the characters before the
\* first one satisfying p, tail starts with that character, and head
\* followed by tail is s.
StrSplitWhenSplitsAtFirstMatch ==
  (subject = "str" /\ call.op = "split_when")
    => LET s == Content(call.slice)
           found == Matches(Chars(s), call.args[1])
       IN IF found = {} THEN ret = None
          ELSE /\ ret.tag = "SomePair"
               /\ Chars(Content(ret.fst)) = SubSeq(Chars(s), 1, Least(found))
               /\ Chars(Content(ret.snd)) # <<>>
               /\ Chars(Content(ret.snd))[1] = Chars(s)[Least(found) + 1]
               /\ Content(ret.fst) \o Content(ret.snd) = s

-----------------------------------------------------------------------------
\* Properties of enumeration.

\* The number of bytes the first n of a sequence of characters take.
RECURSIVE BytesOf(_, _)
BytesOf(chars, n) ==
  IF n = 0 THEN 0 ELSE BytesOf(chars, n - 1) + Len(chars[n])

\* C13: the offsets as_enum yields are strictly increasing; on a byte
\* slice the offset of an item is its index, and on a text it is the byte
\* offset of the character's first byte, not the character's ordinal.
EnumOffsetsAreByteOffsets ==
  call.op = "as_enum"
    => LET s == Content(call.slice)
           n == Len(ret.items)
       IN /\ ret.tag = "Enum"
          /\ \A i \in 1..n : \A j \in 1..n :
               i < j => ret.items[i].off < ret.items[j].off
          /\ subject = "bytes"
               => /\ n = Len(s)
                  /\ \A i \in 1..n :
                       ret.items[i] = [off |-> i - 1, item |-> s[i]]
          /\ subject = "str"
               => /\ n = Len(Chars(s))
                  /\ \A i \in 1..n :
                       /\ ret.items[i].item = Chars(s)[i]
                       /\ ret.items[i].off = BytesOf(Chars(s), i - 1)
                       /\ s[ret.items[i].off + 1] = ret.items[i].item[1]

\* C13 happens: a text is enumerated in which a character follows a
\* two-byte character, so its byte offset differs from its ordinal.
EnumAfterMultiByteChar ==
  /\ subject = "str"
  /\ call.op = "as_enum"
  /\ Len(ret.items) >= 2
  /\ ret.items[2].off = 2

\* C14: on a cursor reached from Cursor::new(b) by advance and next
\* calls, iter_indices() and into_vec() pair each item they yield with the
\* offset of that item within b, not with its index in the narrowed slice
\* the cursor holds.
CursorEnumOffsetsAreBufferOffsets ==
  (subject = "cursor" /\ call.op \in {"iter_indices", "into_vec"})
    => /\ ret.tag = "Enum"
       /\ \A i \in 1..Len(ret.items) :
            ret.items[i] = [off |-> call.inner.off + i - 1,
                            item |-> buf[call.inner.off + i]]

-----------------------------------------------------------------------------
\* Properties of the error codes.

\* The kind-to-code conversions: the calls that take a kind to its code.
ToCode == {"as_code", "StatusCode::from"}

\* C15: the codes of the five kinds are five distinct codes in 0..4;
\* converting a kind to its code, by as_code or by StatusCode::from, and
\* the code back gives the kind; a code above 4 converts to Unknown, and
\* never fails; and kind() of an error built with a code is what
\* ErrorKind::from gives for that code.
CodesAndKindsCorrespond ==
  subject = "error"
    => \A i \in 1..Len(trail) :
         LET e == trail[i]
         IN /\ e.op \in ToCode
                 => /\ e.ret.tag = "StatusCode"
                    /\ e.ret.code \in 0..4
                    /\ e.ret = ErrorKind_as_code(e.on)
                    /\ e.ret = StatusCode_from(e.on)
                    /\ \A k \in ErrorKinds :
                         ErrorKind_as_code(ErrorKind(k)) = e.ret => ErrorKind(k) = e.on
            /\ e.op = "ErrorKind::from"
                 => /\ e.ret.tag = "ErrorKind"
                    /\ e.on.code > 4 => e.ret = ErrorKind("Unknown")
                    /\ (i > 1 /\ trail[i - 1].op \in ToCode) => e.ret = trail[i - 1].on
            /\ e.op = "kind"
                 => /\ e.ret.tag = "ErrorKind"
                    /\ e.ret = ErrorKind_from(StatusCode(e.on.code))
                    /\ e.on.code > 4 => e.ret = ErrorKind("Unknown")
                    /\ (i > 2 /\ trail[i - 2].op \in ToCode) => e.ret = trail[i - 2].on

\* C15 happens: the kind read from an ErrorMessage built with MissingData
\* is converted to its code, and the code back to MissingData.
MissingDataRoundTrip ==
  /\ subject = "error"
  /\ Len(trail) = 4
  /\ trail[1].op = "ErrorMessage::new"
  /\ trail[2].op = ".kind"
  /\ trail[3].op = "as_code"
  /\ trail[3].on = ErrorKind("MissingData")
  /\ trail[4].op = "ErrorKind::from"
  /\ ret = ErrorKind("MissingData")

-----------------------------------------------------------------------------
\* Properties of Bytes.

\* The longest prefix of a sequence of bytes without ASCII whitespace.
RECURSIVE LeadingToken(_)
LeadingToken(items) ==
  IF items = <<>> \/ IsAsciiWhitespace(items[1]) THEN <<>>
  ELSE <<items[1]>> \o LeadingToken(Tail(items))

\* C16: next_token on bytes that begin with a non-whitespace byte returns
\* the first whitespace-delimited token, the longest leading run of bytes
\* that are not ASCII whitespace; on no bytes it returns None.
NextTokenReturnsLeadingToken ==
  (subject = "tokens" /\ call.op = "next_token")
    => LET s == Content(call.on.inner)
       IN IF s = <<>> THEN ret = None
          ELSE ~IsAsciiWhitespace(s[1])
                 => /\ ret.tag = "SomeSlice"
                    /\ Content(ret) = LeadingToken(s)

\* C18: on a cursor reached by new, advance, next_item and earlier
\* split_at calls, split_at(mid) with mid <= remaining() passes its three
\* assertions and its slice indexing and returns (the first mid unconsumed
\* items, the rest); so it can be called again and again on one cursor.
SplitAtWithinRemainingSucceeds ==
  (subject = "cursor" /\ call.op = "split_at" /\ Arg <= Cursor_remaining(Pre))
    => LET unconsumed == DropPrefix(Content(Pre.inner), Pre.position)
       IN /\ status = "ok"
          /\ ret.tag = "Pair"
          /\ Content(ret.fst) = SubSeq(unconsumed, 1, Arg)
          /\ Content(ret.snd) = DropPrefix(unconsumed, Arg)

-----------------------------------------------------------------------------
\* Properties of the crate root's Span and Cursor.

\* C17: on a byte slice b, view(i..j) with 0 <= i <= j <= len(b) returns
\* a handle of length j - i over b[i..j].
LibViewYieldsRange ==
  (subject = "libspan" /\ call.op = "view"
     /\ call.args[1] <= call.args[2] /\ call.args[2] <= call.slice.len)
    => /\ ret.tag = "Slice"
       /\ ret.len = call.args[2] - call.args[1]
       /\ Content(ret) = SubSeq(Content(call.slice), call.args[1] + 1, call.args[2])

\* C19: calling next() again and again on a StrSpan over a text, or on a
\* ByteSpan over bytes, yields each item once, in order, and then None:
\* the k-th call yields the k-th item while there is one, and every call
\* after that returns None.
SpanNextYieldsEachItemOnce ==
  (subject = "span" /\ call.op = "next")
    => LET k == trail.nexts
       IN IF self.tag = "ByteSpan"
          THEN ret = (IF k <= Len(buf) THEN SomeRef(k - 1) ELSE None)
          ELSE ret = (IF k <= Len(Chars(buf)) THEN SomeChar(Chars(buf)[k]) ELSE None)

\* C20: on the crate root's Cursor over a buffer b, the k-th call of
\* next() or bump(), 1 <= k <= len(b), returns the item b[k-1] and leaves
\* position = k; every later call returns None and leaves the position as
\* it was.
LibCursorNextYieldsItemsInOrder ==
  (subject = "libcursor" /\ call.op \in {"next", "bump"})
    => LET k == trail.nexts
       IN IF k <= Len(buf)
          THEN /\ ret.tag = "SomeRef"
               /\ buf[ret.off + 1] = buf[k]
               /\ self.position = k
          ELSE /\ ret = None
               /\ self.position = call.on.position

====
